---- MODULE Spec2Model ----
(***************************************************************************)
(* TypescriptVersion and TypeScriptVersionManager (typescript version      *)
(* manager of the Theia typescript extension) as a state machine.          *)
(*                                                                         *)
(* A URI is the sequence of its path segments; the empty sequence is       *)
(* `new URI()`, the location of the default version.  A raw path is a      *)
(* sequence of segments too, an absolute one starting with the segment     *)
(* "/".  Records are heap objects: `heap[id]` holds the fields of record   *)
(* `id`, and the manager's fields hold ids, so that two records with the   *)
(* same location stay two objects.  Optional values are sequences of       *)
(* length at most one (<<>> is undefined).                                 *)
(*                                                                         *)
(* Every action is one run-to-completion turn of the JavaScript event      *)
(* loop: code between two awaits is atomic, every await is a step of its   *)
(* own.  A handler call that changes nothing is a stuttering step.         *)
(*                                                                         *)
(* The storage service answers getData with the value it holds when the    *)
(* call is made and performs the setData calls in the order they are made; *)
(* the manager awaits no setData, so `stored` holds the value of the       *)
(* latest call from the moment it is made.                                 *)
(***************************************************************************)
EXTENDS Integers, Sequences, FiniteSets, Bags, TLC

VARIABLES
    heap,               \* the TypescriptVersion objects: heap[id] = [uri, _version]
    _currentVersion,    \* id of the active record
    _useWorkspaceTsds,  \* the in-memory flag
    _workspaceVersions, \* sequence of ids, the internal collection
    roots,              \* workspace.tryGetRoots(), a sequence of root URIs
    tsdk,               \* preferences['typescript.tsdk'], a raw path (<<>>: unset)
    runs,               \* the updateWorkspaceVersions() calls in flight
    triggered,          \* number of reconciliations started after startup
    fsOps,              \* bag of version.resolve().then(...) chains in flight
    stored,             \* storage value under 'typescript.useWorkspaceTsdk'
    load,               \* the startup storage.getData(): [phase, value]
    fired,              \* payloads fired by onDidChangeCurrentEmitter in the last step
    last                \* the handler that took the last step, and its argument

vars == <<heap, _currentVersion, _useWorkspaceTsds, _workspaceVersions, roots,
          tsdk, runs, triggered, fsOps, stored, load, fired, last>>

----------------------------------------------------------------------------
(* Bounds *)

\* reconciliations triggered after the startup one
MaxRuns == 1
\* version.resolve().then() chains in flight at once
MaxFsOps == 1

----------------------------------------------------------------------------
(* URIs and paths *)

\* new URI(): the location of defaultVersion
EmptyUri == <<>>

\* the conventional install path of resolveVersions' second call
ConventionalPath == <<"node_modules", "typescript", "lib">>

RootA == <<"a">>
RootB == <<"b">>

\* the values workspace.tryGetRoots() takes
RootLists == { <<>>, <<RootA>>, <<RootA, RootB>> }

\* the values of the 'typescript.tsdk' preference: unset, the conventional
\* relative path, and an absolute path that names the conventional place
\* under RootA
TsdkValues == { <<>>,
                ConventionalPath,
                <<"/">> \o RootA \o ConventionalPath }

\* Path.isAbsolute
isAbsolute(path) == Len(path) > 0 /\ path[1] = "/"

\* new URI().withPath(path), path absolute
withPath(path) == Tail(path)

\* new URI(root).resolve(path), path relative
resolve(root, path) == root \o path

\* URI.parent
parent(uri) == IF Len(uri) = 0 THEN uri ELSE SubSeq(uri, 1, Len(uri) - 1)

\* TypescriptVersion.packageUri
packageUri(uri) == resolve(parent(uri), <<"package.json">>)

\* URI.isEqualOrParent: uri is a prefix of other
isEqualOrParent(uri, other) ==
    Len(uri) <= Len(other) /\ SubSeq(other, 1, Len(uri)) = uri

\* FileChangeEvent.isAffected(e, uri): some change lies at or below uri
isAffected(e, uri) == \E c \in e : isEqualOrParent(uri, c)

----------------------------------------------------------------------------
(* TypescriptVersion *)

\* id of defaultVersion, constructed with the manager
defaultVersion == 1

\* no record (the value undefined of type TypescriptVersion | undefined)
undefined == 0

\* TypescriptVersion.valid: !!this._version
valid(v) == v._version # <<>> /\ v._version[1] # ""

\* TypescriptVersion.equals; another is optional (<<>> or <<record>>)
equals(v, another) == another # <<>> /\ v.uri = another[1].uri

\* the object behind a reference of type TypescriptVersion | undefined
deref(h, id) == IF id = undefined THEN <<>> ELSE <<h[id]>>

\* what filesystem.resolveContent(packageUri) and JSON.parse yield
ReadOutcomes ==
    { [kind |-> k, parse |-> "", vtype |-> "", val |-> ""] :
        k \in {"FileNotFound", "FileIsDirectory", "Error"} }
    \cup { [kind |-> "content", parse |-> p, vtype |-> "", val |-> ""] :
        p \in {"SyntaxError", "null"} }
    \cup { [kind |-> "content", parse |-> "object", vtype |-> "absent", val |-> ""],
           [kind |-> "content", parse |-> "object", vtype |-> "number", val |-> "4"],
           [kind |-> "content", parse |-> "object", vtype |-> "string", val |-> ""],
           [kind |-> "content", parse |-> "object", vtype |-> "string", val |-> "4.2.0"] }

\* resolve() without the typeof test on pck.version
resolveVersionField_anyType(o) ==
    IF o.kind # "content" \/ o.parse = "SyntaxError"
    THEN <<>>
    ELSE IF o.parse = "null" \/ o.vtype = "absent" \/ o.val = ""
         THEN <<>>
         ELSE <<o.val>>

\* the value TypescriptVersion.resolve() leaves in _version
resolveVersionField(o) ==
    IF o.kind # "content" \/ o.parse = "SyntaxError"
    THEN <<>>
    ELSE IF o.parse = "null" \/ o.vtype = "absent" \/ o.val = "" \/ o.vtype # "string"
         THEN <<>>
         ELSE <<o.val>>

\* the values resolve() can leave in _version
ResolveResults == { resolveVersionField(o) : o \in ReadOutcomes }

\* the heap after resolve() of record id has assigned v to _version
resolved(h, id, v) == [h EXCEPT ![id]._version = v]

----------------------------------------------------------------------------
(* TypeScriptVersionManager: selection *)

\* get workspaceVersions(): the valid records of the internal collection
workspaceVersions(h, wv) == SelectSeq(wv, LAMBDA id : valid(h[id]))

\* validateVersion searching _workspaceVersions instead of workspaceVersions
validateVersion_unfiltered(h, wv, version) ==
    LET hits == { i \in 1..Len(wv) : equals(h[wv[i]], <<version>>) }
    IN  IF equals(version, <<h[defaultVersion]>>)
        THEN defaultVersion
        ELSE IF hits # {}
             THEN wv[CHOOSE i \in hits : \A j \in hits : i <= j]
             ELSE defaultVersion

\* validateVersion answering undefined for a record it does not find
validateVersion_undefined(h, wv, version) ==
    LET ws == workspaceVersions(h, wv)
        hits == { i \in 1..Len(ws) : equals(h[ws[i]], <<version>>) }
    IN  IF equals(version, <<h[defaultVersion]>>)
        THEN defaultVersion
        ELSE IF hits # {}
             THEN ws[CHOOSE i \in hits : \A j \in hits : i <= j]
             ELSE undefined

\* validateVersion(version): version is a record object, the result an id
validateVersion(h, wv, version) ==
    LET ws == workspaceVersions(h, wv)
        hits == { i \in 1..Len(ws) : equals(h[ws[i]], <<version>>) }
    IN  IF equals(version, <<h[defaultVersion]>>)
        THEN defaultVersion
        ELSE IF hits # {}
             THEN ws[CHOOSE i \in hits : \A j \in hits : i <= j]
             ELSE defaultVersion

\* the manager fields setCurrentVersion touches
Selection == [cur |-> _currentVersion, flag |-> _useWorkspaceTsds,
              stored |-> stored, fired |-> <<>>]

\* setCurrentVersion without the equals guard
setCurrentVersion_unguarded(h, m, currentVersion) ==
    IF currentVersion = undefined
    THEN m
    ELSE LET flag == ~equals(h[defaultVersion], deref(h, currentVersion))
         IN  [cur    |-> currentVersion,
              flag   |-> flag,
              stored |-> <<flag>>,
              fired  |-> Append(m.fired, currentVersion)]

\* setCurrentVersion firing the record it replaces
setCurrentVersion_firesPrevious(h, m, currentVersion) ==
    IF (m.cur # undefined /\ equals(h[m.cur], deref(h, currentVersion)))
       \/ currentVersion = undefined
    THEN m
    ELSE LET flag == ~equals(h[defaultVersion], deref(h, currentVersion))
         IN  [cur    |-> currentVersion,
              flag   |-> flag,
              stored |-> <<flag>>,
              fired  |-> Append(m.fired, m.cur)]

\* setCurrentVersion(currentVersion), currentVersion an id or undefined
setCurrentVersion(h, m, currentVersion) ==
    IF (m.cur # undefined /\ equals(h[m.cur], deref(h, currentVersion)))
       \/ currentVersion = undefined
    THEN m
    ELSE LET flag == ~equals(h[defaultVersion], deref(h, currentVersion))
         IN  [cur    |-> currentVersion,
              flag   |-> flag,
              stored |-> <<flag>>,
              fired  |-> Append(m.fired, currentVersion)]

\* setCurrentVersion firing before it assigns
notified_firesFirst(h, m, currentVersion) ==
    [payload |-> m.cur, cur |-> m.cur, flag |-> m.flag, stored |-> m.stored]

\* what a subscriber reads during the fire() of setCurrentVersion, called
\* with a record that passes its guard: the statements of lines 123-126 in
\* their order
notified(h, m, currentVersion) ==
    LET s1 == [m  EXCEPT !.cur = currentVersion]
        s2 == [s1 EXCEPT !.flag = ~equals(h[defaultVersion], deref(h, s1.cur))]
        s3 == [s2 EXCEPT !.stored = <<s2.flag>>]
    IN  [payload |-> s3.cur, cur |-> s3.cur, flag |-> s3.flag, stored |-> s3.stored]

\* set currentVersion(currentVersion), currentVersion a record object or
\* absent (<<>>): version.equals of validateVersion then raises a TypeError
\* and nothing is assigned
assignCurrentVersion(h, wv, m, version) ==
    IF version = <<>>
    THEN m
    ELSE setCurrentVersion(h, m, validateVersion(h, wv, version[1]))

\* updateCurrentVersion doing nothing
updateCurrentVersion_skipped(h, wv, m) == m

\* updateCurrentVersion(): this.currentVersion = this.currentVersion
updateCurrentVersion(h, wv, m) == assignCurrentVersion(h, wv, m, <<h[m.cur]>>)

----------------------------------------------------------------------------
(* TypeScriptVersionManager: reconciliation *)

\* resolveVersion without the versions.has(key) test: versions.set
\* replaces the record of a key the Map already holds
resolveVersion_noHas(st, uri) ==
    LET id == Len(st.heap) + 1
        at == { i \in 1..Len(st.all) : st.heap[st.all[i]].uri = uri }
    IN  [heap  |-> Append(st.heap, [uri |-> uri, _version |-> <<>>]),
         all   |-> IF at = {} THEN Append(st.all, id)
                   ELSE [i \in 1..Len(st.all) |-> IF i \in at THEN id ELSE st.all[i]],
         calls |-> Append(st.calls, [uri |-> uri, rec |-> id])]

\* resolveVersion(versions, uri) up to its await: st.all is the Map in
\* insertion order, st.calls the promises of the resolveVersion calls
\* (rec = undefined for a call that returned at versions.has(key))
resolveVersion(st, uri) ==
    IF \E i \in 1..Len(st.all) : st.heap[st.all[i]].uri = uri
    THEN [st EXCEPT !.calls = Append(@, [uri |-> uri, rec |-> undefined])]
    ELSE LET id == Len(st.heap) + 1
         IN  [heap  |-> Append(st.heap, [uri |-> uri, _version |-> <<>>]),
              all   |-> Append(st.all, id),
              calls |-> Append(st.calls, [uri |-> uri, rec |-> id])]

RECURSIVE resolveEach(_, _)
\* the resolveVersion calls of resolveVersions, in the order they are made
resolveEach(st, uris) ==
    IF uris = <<>> THEN st
    ELSE resolveEach(resolveVersion(st, Head(uris)), Tail(uris))

\* resolveVersions(versions, rawPath) up to its awaits
resolveVersions(st, rawPath, rts) ==
    IF rawPath = <<>>
    THEN st
    ELSE IF isAbsolute(rawPath)
         THEN resolveEach(st, << withPath(rawPath) >>)
         ELSE resolveEach(st, [i \in 1..Len(rts) |-> resolve(rts[i], rawPath)])

\* updateWorkspaceVersions() up to the await of Promise.all: the run n
\* it starts and the heap with the records it constructed
startRun(h, n, rts, pref) ==
    LET st0 == [heap |-> h, all |-> <<>>, calls |-> <<>>]
        st1 == resolveVersions(st0, pref, rts)
        st2 == resolveVersions(st1, ConventionalPath, rts)
    IN  [heap |-> st2.heap,
         run  |-> [id |-> n, all |-> st2.all, calls |-> st2.calls,
                   pend |-> { st2.all[i] : i \in 1..Len(st2.all) }]]

\* resolveVersion rejecting when the read of its record failed
callSettled_abortsOnFailure(r, call) ==
    IF call.rec = undefined THEN TRUE
    ELSE call.rec \notin r.pend /\ valid(heap[call.rec])

\* resolveVersion not awaiting version.resolve()
callSettled_notAwaited(r, call) == TRUE

\* the promise of one resolveVersion call has settled
callSettled(r, call) == call.rec = undefined \/ call.rec \notin r.pend

\* both resolveVersions promises of Promise.all, and the Promise.all of
\* each, have settled
joined(r) == \A i \in 1..Len(r.calls) : callSettled(r, r.calls[i])

----------------------------------------------------------------------------
(* Inputs *)

\* the locations a record handed to the manager can have
Locations == { resolve(r, ConventionalPath) : r \in {RootA, RootB} }

\* the locations of the records assigned to currentVersion
AssignUris == {EmptyUri} \cup Locations

\* the values assigned to currentVersion: nothing, or a record
AssignValues == { <<>> } \cup { <<[uri |-> uri, _version |-> <<>>]>> : uri \in AssignUris }

\* the change-sets the watcher reports: one changed file, the entry point
\* or the manifest of some location
ChangeSets ==
    { { resolve(l, <<"tsserver.js">>) } : l \in Locations }
    \cup { { packageUri(l) } : l \in Locations }

PreferenceNames == {"typescript.tsdk", "typescript.trace.server"}

\* the fields of `last`: the handler that ran and the value it was given
Op(name, arg) == [op |-> name, arg |-> arg]

----------------------------------------------------------------------------
(* Initial state: the manager after construction and init() *)

Init ==
    /\ roots \in RootLists
    /\ tsdk \in TsdkValues
    /\ stored \in {<<>>, <<TRUE>>}
    /\ LET s == startRun(<<[uri |-> EmptyUri, _version |-> <<>>]>>, 0, roots, tsdk)
       IN  heap = s.heap /\ runs = {s.run}
    /\ _currentVersion = defaultVersion
    /\ _useWorkspaceTsds = FALSE
    /\ _workspaceVersions = <<>>
    /\ triggered = 0
    /\ fsOps = EmptyBag
    /\ load = [phase |-> "pending", value |-> stored]
    /\ fired = <<>>
    /\ last = Op("init", <<>>)

----------------------------------------------------------------------------
(* Actions *)

\* the records some reference of the program still reaches
live(cur, wv, rs, ops) ==
    {defaultVersion, cur}
    \cup { wv[i] : i \in 1..Len(wv) }
    \cup UNION { { r.all[i] : i \in 1..Len(r.all) } : r \in rs }
    \cup { op.rec : op \in BagToSet(ops) }

\* the heap with the fields of unreachable records cleared
collect(h, reached) ==
    [id \in 1..Len(h) |->
        IF id \in reached THEN h[id] ELSE [h[id] EXCEPT !._version = <<>>]]

\* the manager fields after a step that ran setCurrentVersion
Select(m) ==
    /\ _currentVersion' = m.cur
    /\ _useWorkspaceTsds' = m.flag
    /\ stored' = m.stored
    /\ fired' = m.fired

\* manager.currentVersion = version
Assign(version) ==
    LET m == assignCurrentVersion(heap, _workspaceVersions, Selection, version)
    IN  IF m = Selection
        THEN UNCHANGED vars
        ELSE /\ Select(m)
             /\ last' = Op("assign", version)
             /\ heap' = collect(heap, live(m.cur, _workspaceVersions, runs, fsOps))
             /\ UNCHANGED <<_workspaceVersions, roots, tsdk, runs, triggered,
                            fsOps, load>>

\* updateWorkspaceVersions() is called: its synchronous part
StartReconcile(rts, pref) ==
    /\ triggered < MaxRuns
    /\ triggered' = triggered + 1
    /\ roots' = rts
    /\ tsdk' = pref
    /\ LET s == startRun(heap, triggered + 1, rts, pref)
       IN  heap' = s.heap /\ runs' = runs \cup {s.run}
    /\ fired' = <<>>
    /\ UNCHANGED <<_currentVersion, _useWorkspaceTsds, _workspaceVersions,
                   fsOps, stored, load>>

\* workspace.onWorkspaceChanged fires, the roots are now rts
WorkspaceChanged(rts) ==
    /\ rts # roots
    /\ StartReconcile(rts, tsdk)
    /\ last' = Op("workspaceChanged", <<>>)

\* the onPreferenceChanged handler without the test of e.preferenceName
PreferenceChanged_anyName(name, pref) ==
    /\ IF name = "typescript.tsdk" THEN pref # tsdk ELSE pref = tsdk
    /\ StartReconcile(roots, pref)
    /\ last' = Op("preferenceChanged", <<name>>)

\* preferences.onPreferenceChanged fires for preference name; pref is the
\* new value of 'typescript.tsdk' when that is the preference changed
PreferenceChanged(name, pref) ==
    IF name = "typescript.tsdk"
    THEN /\ pref # tsdk
         /\ StartReconcile(roots, pref)
         /\ last' = Op("preferenceChanged", <<name>>)
    ELSE pref = tsdk /\ UNCHANGED vars

\* the ids of _workspaceVersions the change-set e affects
affected(e) ==
    { _workspaceVersions[i] : i \in
        { j \in 1..Len(_workspaceVersions) :
            isAffected(e, heap[_workspaceVersions[j]].uri) } }

\* one version.resolve().then(...) chain: the record and how far it is
FsOp(id, phase) == SetToBag({[rec |-> id, phase |-> phase]})

RECURSIVE fsOpsOf(_)
\* the chains started for the records of a set
fsOpsOf(ids) ==
    IF ids = {} THEN EmptyBag
    ELSE LET id == CHOOSE i \in ids : TRUE
         IN  FsOp(id, "resolve") (+) fsOpsOf(ids \ {id})

\* the onFilesChanged handler removing the affected records from the
\* collection
FilesChanged_dropsAffected(e) ==
    /\ BagCardinality(fsOps) + Cardinality(affected(e)) <= MaxFsOps
    /\ IF affected(e) = {}
       THEN UNCHANGED vars
       ELSE /\ fsOps' = fsOps (+) fsOpsOf(affected(e))
            /\ _workspaceVersions' =
                  SelectSeq(_workspaceVersions, LAMBDA id : id \notin affected(e))
            /\ fired' = <<>>
            /\ last' = Op("filesChanged", <<>>)
            /\ UNCHANGED <<heap, _currentVersion, _useWorkspaceTsds,
                           roots, tsdk, runs, triggered, stored, load>>

\* fsWatcher.onFilesChanged fires with change-set e
FilesChanged(e) ==
    /\ BagCardinality(fsOps) + Cardinality(affected(e)) <= MaxFsOps
    /\ IF affected(e) = {}
       THEN UNCHANGED vars
       ELSE /\ fsOps' = fsOps (+) fsOpsOf(affected(e))
            /\ fired' = <<>>
            /\ last' = Op("filesChanged", <<>>)
            /\ UNCHANGED <<heap, _currentVersion, _useWorkspaceTsds,
                           _workspaceVersions, roots, tsdk, runs, triggered,
                           stored, load>>

\* version.resolve() of a watcher chain settles, leaving v in _version
FsResolveSettle(id, v) ==
    /\ BagIn([rec |-> id, phase |-> "resolve"], fsOps)
    /\ heap' = resolved(heap, id, v)
    /\ fsOps' = (fsOps (-) FsOp(id, "resolve")) (+) FsOp(id, "then")
    /\ fired' = <<>>
    /\ last' = Op("fsResolve", <<>>)
    /\ UNCHANGED <<_currentVersion, _useWorkspaceTsds, _workspaceVersions,
                   roots, tsdk, runs, triggered, stored, load>>

\* the then-callback of a watcher chain: updateCurrentVersion()
FsThen(id) ==
    /\ BagIn([rec |-> id, phase |-> "then"], fsOps)
    /\ fsOps' = fsOps (-) FsOp(id, "then")
    /\ Select(updateCurrentVersion(heap, _workspaceVersions, Selection))
    /\ last' = Op("fsThen", <<>>)
    /\ heap' = collect(heap, live(_currentVersion', _workspaceVersions, runs, fsOps'))
    /\ UNCHANGED <<_workspaceVersions, roots, tsdk, runs, triggered, load>>

\* version.resolve() awaited by resolveVersion in run r settles, leaving
\* v in _version
RunResolveSettle(r, id, v) ==
    /\ r \in runs /\ id \in r.pend
    /\ heap' = resolved(heap, id, v)
    /\ runs' = (runs \ {r}) \cup {[r EXCEPT !.pend = @ \ {id}]}
    /\ fired' = <<>>
    /\ last' = Op("runResolve", <<>>)
    /\ UNCHANGED <<_currentVersion, _useWorkspaceTsds, _workspaceVersions,
                   roots, tsdk, triggered, fsOps, stored, load>>

\* updateWorkspaceVersions() pushing onto the collection it holds instead
\* of a new one
ReconcileComplete_merging(r) ==
    /\ r \in runs /\ joined(r)
    /\ runs' = runs \ {r}
    /\ _workspaceVersions' = _workspaceVersions \o r.all
    /\ Select(updateCurrentVersion(heap, _workspaceVersions', Selection))
    /\ last' = Op("reconciled", <<>>)
    /\ heap' = collect(heap, live(_currentVersion', _workspaceVersions', runs', fsOps))
    /\ UNCHANGED <<roots, tsdk, triggered, fsOps, load>>

\* updateWorkspaceVersions() publishing without updateCurrentVersion()
ReconcileComplete_unvalidated(r) ==
    /\ r \in runs /\ joined(r)
    /\ runs' = runs \ {r}
    /\ _workspaceVersions' = r.all
    /\ Select(Selection)
    /\ last' = Op("reconciled", <<>>)
    /\ heap' = collect(heap, live(_currentVersion', r.all, runs', fsOps))
    /\ UNCHANGED <<roots, tsdk, triggered, fsOps, load>>

\* updateWorkspaceVersions() of run r after its await: publish, validate
ReconcileComplete(r) ==
    /\ r \in runs /\ joined(r)
    /\ runs' = runs \ {r}
    /\ _workspaceVersions' = r.all
    /\ Select(updateCurrentVersion(heap, r.all, Selection))
    /\ last' = Op("reconciled", <<>>)
    /\ heap' = collect(heap, live(_currentVersion', r.all, runs', fsOps))
    /\ UNCHANGED <<roots, tsdk, triggered, fsOps, load>>

\* the then-callback of getData: this._useWorkspaceTsds = value || false
LoadDone ==
    /\ load.phase = "pending"
    /\ load' = [load EXCEPT !.phase = "done"]
    /\ _useWorkspaceTsds' = (load.value = <<TRUE>>)
    /\ fired' = <<>>
    /\ last' = Op("loadDone", <<>>)
    /\ UNCHANGED <<heap, _currentVersion, _workspaceVersions, roots, tsdk,
                   runs, triggered, fsOps, stored>>

Next ==
    \/ \E version \in AssignValues : Assign(version)
    \/ \E rts \in RootLists : WorkspaceChanged(rts)
    \/ \E name \in PreferenceNames, pref \in TsdkValues : PreferenceChanged(name, pref)
    \/ \E e \in ChangeSets : FilesChanged(e)
    \/ \E id \in 1..Len(heap), v \in ResolveResults : FsResolveSettle(id, v)
    \/ \E id \in 1..Len(heap) : FsThen(id)
    \/ \E r \in runs, id \in 1..Len(heap), v \in ResolveResults : RunResolveSettle(r, id, v)
    \/ \E r \in runs : ReconcileComplete(r)
    \/ LoadDone

Spec == Init /\ [][Next]_vars

TypeOK ==
    /\ _currentVersion \in 1..Len(heap)
    /\ _useWorkspaceTsds \in BOOLEAN
    /\ \A i \in 1..Len(_workspaceVersions) : _workspaceVersions[i] \in 2..Len(heap)
    /\ triggered \in 0..MaxRuns

----------------------------------------------------------------------------
(* Properties *)

\* the locations of the records of a collection
UrisOf(h, wv) == { h[wv[i]].uri : i \in 1..Len(wv) }

\* the locations of the valid records of a collection
ValidUrisOf(h, wv) == { h[wv[i]].uri : i \in { j \in 1..Len(wv) : valid(h[wv[j]]) } }

\* the handlers that end in setCurrentVersion(validateVersion(...))
Validating == {"assign", "fsThen", "reconciled"}

\* what `manager.currentVersion = version` would leave in this state
Assigned(version) ==
    assignCurrentVersion(heap, _workspaceVersions, Selection, version)

\* what every handler that reaches setCurrentVersion would leave in this
\* state: an assignment, the then-callback of a watcher chain, the
\* completion of a reconciliation in flight
Outcomes ==
    { Assigned(version) : version \in AssignValues }
    \cup { updateCurrentVersion(heap, _workspaceVersions, Selection) }
    \cup { updateCurrentVersion(heap, r.all, Selection) : r \in runs }

\* C1: in every reachable state the active version is the default record or
\* has the location of a record of the workspace-version collection; after
\* every step that validates (assignment, reconciliation, watcher
\* then-callback) it is the default unless a valid record of the collection
\* has its location.
C1_ActiveIsDefaultOrMember ==
    /\ \/ _currentVersion = defaultVersion
       \/ heap[_currentVersion].uri \in UrisOf(heap, _workspaceVersions)
    /\ last.op \in Validating =>
          \/ _currentVersion = defaultVersion
          \/ heap[_currentVersion].uri \in ValidUrisOf(heap, _workspaceVersions)

\* a reconciliation has just replaced the collection and its validation
\* made the active version fall back to the default
C1_Witness ==
    /\ last.op = "reconciled"
    /\ fired = <<defaultVersion>>
    /\ _currentVersion = defaultVersion

\* the records validateVersion is applied to: the ones handed to the
\* setter and every record of the heap
ValidateInputs ==
    { [uri |-> uri, _version |-> <<>>] : uri \in AssignUris }
    \cup { heap[id] : id \in 1..Len(heap) }

\* C2: validateVersion(v) is the default record when v has the default's
\* location, else the valid record of the collection at v's location when
\* there is one, else the default record; the result is never an invalid
\* non-default record.
C2_ValidateVersion ==
    \A v \in ValidateInputs :
        LET r == validateVersion(heap, _workspaceVersions, v)
        IN  /\ v.uri = EmptyUri => r = defaultVersion
            /\ v.uri # EmptyUri /\ v.uri \in ValidUrisOf(heap, _workspaceVersions) =>
                  /\ \E i \in 1..Len(_workspaceVersions) : _workspaceVersions[i] = r
                  /\ valid(heap[r])
                  /\ heap[r].uri = v.uri
            /\ v.uri # EmptyUri /\ v.uri \notin ValidUrisOf(heap, _workspaceVersions) =>
                  r = defaultVersion
            /\ r = defaultVersion \/ valid(heap[r])

\* the collection holds a valid and an invalid record
C2_Witness ==
    \E i, j \in 1..Len(_workspaceVersions) :
        /\ valid(heap[_workspaceVersions[i]])
        /\ ~valid(heap[_workspaceVersions[j]])

\* the assigned value is absent, or a record that is not the default, has
\* no valid record of the collection at its location and is unequal to the
\* active version
AssignedInvalid(version) ==
    \/ version = <<>>
    \/ /\ version[1].uri # EmptyUri
       /\ version[1].uri \notin ValidUrisOf(heap, _workspaceVersions)
       /\ version[1].uri # heap[_currentVersion].uri

\* C3 as claimed: assigning an absent or invalid record unequal to the
\* current selection changes nothing and fires nothing.
C3_AsClaimed ==
    \A version \in AssignValues :
        AssignedInvalid(version) => Assigned(version) = Selection

\* C3: assigning an invalid record unequal to the current selection selects
\* the default: nothing changes when the default is active, otherwise the
\* default becomes active, the flag false, false is written and one
\* notification fires; assigning an absent value changes nothing.
C3_InvalidAssignSelectsDefault ==
    \A version \in AssignValues :
        AssignedInvalid(version) =>
            Assigned(version) =
                IF version = <<>> \/ _currentVersion = defaultVersion
                THEN Selection
                ELSE [cur    |-> defaultVersion,
                      flag   |-> FALSE,
                      stored |-> <<FALSE>>,
                      fired  |-> <<defaultVersion>>]

\* a record at a location the collection does not hold has just been
\* assigned while a workspace record was active
C3_Witness ==
    /\ last.op = "assign"
    /\ last.arg # <<>>
    /\ last.arg[1].uri \notin UrisOf(heap, _workspaceVersions) \cup {EmptyUri}
    /\ fired = <<defaultVersion>>
    /\ ~_useWorkspaceTsds
    /\ stored = <<FALSE>>

\* every handler fires once if it changes the active location, else never,
\* and only the validating handlers fire
OncePerLocationChange ==
    /\ \A m \in Outcomes :
          Len(m.fired) = IF heap[m.cur].uri # heap[_currentVersion].uri THEN 1 ELSE 0
    /\ Len(fired) <= 1
    /\ fired # <<>> => last.op \in Validating

\* C4 as claimed: one notification per change of the active location, and
\* none for the assignment of a record equal by location to the selection.
C4_AsClaimed ==
    /\ OncePerLocationChange
    /\ \A version \in AssignValues :
          version # <<>> /\ version[1].uri = heap[_currentVersion].uri =>
              Assigned(version).fired = <<>>

\* C4: one notification per change of the active location; none for the
\* assignment of a record equal by location to the selection when the
\* selection is the default or a valid record of the collection has its
\* location.
C4_OneNotificationPerChange ==
    /\ OncePerLocationChange
    /\ \A version \in AssignValues :
          /\ version # <<>>
          /\ version[1].uri = heap[_currentVersion].uri
          /\ \/ _currentVersion = defaultVersion
             \/ heap[_currentVersion].uri \in ValidUrisOf(heap, _workspaceVersions)
          => Assigned(version).fired = <<>>

\* a workspace record is active, made so by the assignment that just fired
C4_Witness ==
    /\ last.op = "assign"
    /\ _currentVersion # defaultVersion
    /\ fired = <<_currentVersion>>

\* C5 as claimed: the payload is the newly active record, and undefined
\* when the newly active record is the default.
C5_AsClaimed ==
    \A i \in 1..Len(fired) :
        fired[i] = IF _currentVersion = defaultVersion THEN undefined
                   ELSE _currentVersion

\* C5: the payload of every notification is the newly active record, the
\* default record itself when the default becomes active, never undefined.
C5_PayloadIsActiveRecord ==
    \A i \in 1..Len(fired) :
        fired[i] = _currentVersion /\ fired[i] # undefined

\* an assignment has just made the default active and fired it
C5_Witness ==
    /\ last.op = "assign"
    /\ fired = <<defaultVersion>>

\* C6: the flag is true iff the active version is not the default record,
\* in every reachable state, before and after the startup load completes.
C6_FlagIffWorkspaceSelection ==
    _useWorkspaceTsds <=> _currentVersion # defaultVersion

\* C7: when a reconciliation completes whose candidates do not hold the
\* location of the active workspace record, its validation leaves the
\* default active and the flag false, with the startup load pending or
\* done.
C7_DroppedSelectionFallsBack ==
    /\ \A r \in runs :
          /\ _currentVersion # defaultVersion
          /\ heap[_currentVersion].uri \notin UrisOf(heap, r.all)
          => LET m == updateCurrentVersion(heap, r.all, Selection)
             IN  m.cur = defaultVersion /\ ~m.flag
    /\ last.op = "reconciled" =>
          /\ \/ _currentVersion = defaultVersion
             \/ heap[_currentVersion].uri \in UrisOf(heap, _workspaceVersions)
          /\ fired # <<>> => _currentVersion = defaultVersion /\ ~_useWorkspaceTsds

\* a reconciliation that still found candidates has just dropped the
\* active workspace record, the startup load still pending
C7_Witness ==
    /\ last.op = "reconciled"
    /\ _workspaceVersions # <<>>
    /\ fired = <<defaultVersion>>
    /\ ~_useWorkspaceTsds
    /\ load.phase = "pending"

\* C8: with no storage operation in flight the stored value equals the flag
\* (a key never written counts as false).
C8_StoredEqualsFlag ==
    load.phase = "done" => (_useWorkspaceTsds <=> stored = <<TRUE>>)

\* the resolveVersion calls of run r that constructed and read a record
\* for location uri
ReadsOf(r, uri) ==
    { i \in 1..Len(r.calls) : r.calls[i].uri = uri /\ r.calls[i].rec # undefined }

\* C9: no two records of the collection, or of the candidates of a
\* reconciliation, have equal locations, and every location a
\* reconciliation discovers has one record, read once.
C9_OneRecordPerLocation ==
    /\ \A i, j \in 1..Len(_workspaceVersions) :
          heap[_workspaceVersions[i]].uri = heap[_workspaceVersions[j]].uri => i = j
    /\ \A r \in runs :
          /\ \A i, j \in 1..Len(r.all) :
                heap[r.all[i]].uri = heap[r.all[j]].uri => i = j
          /\ \A k \in 1..Len(r.calls) :
                /\ Cardinality(ReadsOf(r, r.calls[k].uri)) = 1
                /\ Cardinality({ i \in 1..Len(r.all) :
                                   heap[r.all[i]].uri = r.calls[k].uri }) = 1

\* a reconciliation ready to publish discovered a location from both paths
C9_Witness ==
    \E r \in runs :
        /\ joined(r)
        /\ \E i, j \in 1..Len(r.calls) : i # j /\ r.calls[i].uri = r.calls[j].uri

\* C10: a reconciliation that can publish has no resolve() pending, and no
\* record whose resolve() is pending in a reconciliation is in the
\* collection.
C10_PublishAfterJoin ==
    /\ \A r \in runs : joined(r) => r.pend = {}
    /\ \A r \in runs : \A id \in r.pend :
          \A i \in 1..Len(_workspaceVersions) : _workspaceVersions[i] # id

\* the startup reconciliation, whose two paths discovered the same two
\* locations, has published both records
C10_Witness ==
    /\ last.op = "reconciled"
    /\ triggered = 0
    /\ tsdk = ConventionalPath
    /\ Len(_workspaceVersions) = 2

----------------------------------------------------------------------------
(* Scheduling: every manifest read settles, and the continuation of an      *)
(* await whose promise has settled runs.                                    *)

Fairness ==
    /\ \A n \in 0..MaxRuns :
          WF_vars(\E r \in runs, id \in 1..Len(heap), v \in ResolveResults :
                      r.id = n /\ RunResolveSettle(r, id, v))
    /\ \A n \in 0..MaxRuns :
          WF_vars(\E r \in runs : r.id = n /\ ReconcileComplete(r))

LiveSpec == Spec /\ Fairness

\* reconciliation n is in flight
InFlight(n) == \E r \in runs : r.id = n

\* the locations the resolveVersion calls of run r were made for
CandidatesOf(r) == { r.calls[k].uri : k \in 1..Len(r.calls) }

\* the ids a sequence of records holds
IdsOf(wv) == { wv[i] : i \in 1..Len(wv) }

\* a reconciliation whose reads have settled holds one record per candidate
\* location, valid or not, and the accessor returns the valid records of
\* the internal collection, no other
KeepsFailedReads ==
    /\ \A r \in runs :
          joined(r) => /\ UrisOf(heap, r.all) = CandidatesOf(r)
                       /\ Len(r.all) = Cardinality(CandidatesOf(r))
    /\ IdsOf(workspaceVersions(heap, _workspaceVersions))
          = { id \in IdsOf(_workspaceVersions) : valid(heap[id]) }

\* C11: a failed manifest read does not abort the reconciliation: when every
\* read settles, every reconciliation in flight completes and publishes, one
\* record per candidate location, the failed ones as invalid records; the
\* workspaceVersions accessor returns exactly the valid records of the
\* internal collection.
C11_FailedReadDoesNotAbort ==
    /\ []KeepsFailedReads
    /\ \A n \in 0..MaxRuns : InFlight(n) ~> ~InFlight(n)

\* a reconciliation all of whose reads failed has published its records
C11_Witness ==
    /\ last.op = "reconciled"
    /\ Len(_workspaceVersions) = 2
    /\ workspaceVersions(heap, _workspaceVersions) = <<>>

\* C12: the step that completes a reconciliation leaves in the collection
\* exactly the records of that reconciliation's candidate mapping, in its
\* order, none of them a record the collection or another reconciliation
\* held; no other step changes the collection.
C12_LastCompletedWins ==
    [][/\ last'.op = "reconciled" =>
             \E r \in runs :
                /\ runs' = runs \ {r}
                /\ _workspaceVersions' = r.all
                /\ IdsOf(r.all) \cap IdsOf(_workspaceVersions) = {}
                /\ \A q \in runs \ {r} : IdsOf(r.all) \cap IdsOf(q.all) = {}
       /\ last'.op # "reconciled" => _workspaceVersions' = _workspaceVersions
      ]_vars

\* both of two overlapping reconciliations have completed, the second
\* completion replacing a collection that held records
C12_Witness ==
    /\ last.op = "reconciled"
    /\ triggered = 1
    /\ runs = {}
    /\ _workspaceVersions # <<>>
    /\ _currentVersion = defaultVersion
    /\ fired = <<defaultVersion>>

\* the manifest was read, parsed and has a non-empty string version field
Resolvable(o) ==
    /\ o.kind = "content"
    /\ o.parse = "object"
    /\ o.vtype = "string"
    /\ o.val # ""

\* C13: for every outcome of the manifest read and every record, resolve()
\* settles leaving the record valid, with the manifest's exact version
\* string, iff the manifest was read, parsed and has a non-empty string
\* version field, and invalid with no version otherwise, whatever the record
\* held before; a second resolve() of the same content changes nothing.
C13_ResolveSettles ==
    \A o \in ReadOutcomes : \A id \in 1..Len(heap) :
        LET h == resolved(heap, id, resolveVersionField(o))
        IN  /\ valid(h[id]) <=> Resolvable(o)
            /\ h[id]._version = IF Resolvable(o) THEN <<o.val>> ELSE <<>>
            /\ h[id].uri = heap[id].uri
            /\ \A other \in 1..Len(heap) : other # id => h[other] = heap[other]
            /\ resolved(h, id, resolveVersionField(o)) = h

\* the active record, valid when it was selected, has just been resolved
\* again and is now invalid
C13_Witness ==
    /\ last.op = "fsResolve"
    /\ _currentVersion # defaultVersion
    /\ ~valid(heap[_currentVersion])

\* the steps of the filesystem-change handling: the handler, the settling
\* of a resolve() it started, the then-callback of that resolve()
WatcherSteps == {"filesChanged", "fsResolve", "fsThen"}

\* the records of the collection whose location is at or above a change
\* of e
Hit(e) ==
    { id \in IdsOf(_workspaceVersions) :
        \E c \in e : isEqualOrParent(heap[id].uri, c) }

\* the chains of record id in the given phase
Chains(ops, id, phase) == CopiesIn([rec |-> id, phase |-> phase], ops)

\* C14: no step of the filesystem-change handling changes which records
\* are in the collection or creates a record; the handler starts one
\* resolve() for each affected record of the collection and nothing else,
\* each settling resolve() changes the version of its record only and
\* queues one validation, and that validation runs once.
C14_FilesChangedKeepsCollection ==
    [][/\ last'.op \in WatcherSteps =>
             /\ _workspaceVersions' = _workspaceVersions
             /\ Len(heap') = Len(heap)
             /\ \A id \in 1..Len(heap) : heap'[id].uri = heap[id].uri
             /\ runs' = runs
       /\ last'.op = "filesChanged" =>
             /\ UNCHANGED <<heap, _currentVersion, _useWorkspaceTsds, stored>>
             /\ \E e \in ChangeSets :
                   /\ Hit(e) # {}
                   /\ \A id \in 1..Len(heap) :
                         /\ Chains(fsOps', id, "resolve") =
                               Chains(fsOps, id, "resolve")
                                  + (IF id \in Hit(e) THEN 1 ELSE 0)
                         /\ Chains(fsOps', id, "then") = Chains(fsOps, id, "then")
       /\ last'.op = "fsResolve" =>
             /\ UNCHANGED <<_currentVersion, _useWorkspaceTsds, stored>>
             /\ \E id \in 1..Len(heap) :
                   /\ Chains(fsOps, id, "resolve") > 0
                   /\ fsOps' = (fsOps (-) FsOp(id, "resolve")) (+) FsOp(id, "then")
                   /\ \A other \in 1..Len(heap) :
                         other # id => heap'[other] = heap[other]
       /\ last'.op = "fsThen" =>
             /\ \E id \in 1..Len(heap) :
                   /\ Chains(fsOps, id, "then") > 0
                   /\ fsOps' = fsOps (-) FsOp(id, "then")
             /\ Len(fired') <= 1
             /\ _currentVersion' =
                   validateVersion(heap, _workspaceVersions, heap[_currentVersion])
                \/ _currentVersion' = _currentVersion
      ]_vars

\* the then-callback of a resolve() that left the active record invalid
\* has just made the default active; the record is still in the collection
C14_Witness ==
    /\ last.op = "fsThen"
    /\ fired = <<defaultVersion>>
    /\ \E i \in 1..Len(_workspaceVersions) : ~valid(heap[_workspaceVersions[i]])

\* C15: whenever a change-set contains the manifest of a record of the
\* collection, the handler re-invokes resolve() on that record.
C15_ManifestChangeReresolves ==
    \A e \in ChangeSets : \A id \in IdsOf(_workspaceVersions) :
        packageUri(heap[id].uri) \in e => id \in affected(e)

\* the startup reconciliation has just completed with one workspace root,
\* the override unset and the conventional path resolved to version 4.2.0
InitialReconciliationDone ==
    /\ last.op = "reconciled"
    /\ triggered = 0
    /\ roots = <<RootA>>
    /\ tsdk = <<>>
    /\ Len(_workspaceVersions) = 1
    /\ heap[_workspaceVersions[1]]._version = <<"4.2.0">>

\* C16: after that reconciliation workspaceVersions holds exactly one
\* record, with version 4.2.0, and currentVersion is that record if it was
\* selected before (the persisted flag says a workspace record was) and the
\* default otherwise.
C16_InitialReconciliation ==
    InitialReconciliationDone =>
        LET ws == workspaceVersions(heap, _workspaceVersions)
        IN  /\ Len(ws) = 1
            /\ heap[ws[1]]._version = <<"4.2.0">>
            /\ _currentVersion = IF load.value = <<TRUE>> THEN ws[1]
                                 ELSE defaultVersion

\* the ids of the reconciliations in flight
RunIds(rs) == { r.id : r \in rs }

\* the step starts exactly one reconciliation and leaves the collection
\* and the selection alone
StartsOneReconciliation ==
    /\ triggered' = triggered + 1
    /\ \E new \in runs' : /\ new.id \notin RunIds(runs)
                          /\ runs' = runs \cup {new}
    /\ UNCHANGED <<_workspaceVersions, _currentVersion, _useWorkspaceTsds, stored>>

\* C17: a preference-change event takes a step only for 'typescript.tsdk';
\* that step and the step of a workspace-root change each start exactly one
\* reconciliation and leave the collection, the active version, the flag
\* and the stored flag unchanged; no other step starts a reconciliation.
C17_OnlyTsdkReconciles ==
    [][/\ last'.op = "preferenceChanged" =>
             last'.arg = <<"typescript.tsdk">> /\ StartsOneReconciliation
       /\ last'.op = "workspaceChanged" => StartsOneReconciliation
       /\ last'.op \notin {"preferenceChanged", "workspaceChanged"} =>
             /\ triggered' = triggered
             /\ RunIds(runs') \subseteq RunIds(runs)
      ]_vars

\* a change of 'typescript.tsdk' has just started a reconciliation while
\* the startup one is in flight
C17_Witness ==
    /\ last.op = "preferenceChanged"
    /\ Cardinality(runs) = 2

\* the records the handlers hand to setCurrentVersion in this state
Validated ==
    { validateVersion(heap, _workspaceVersions, v[1]) : v \in AssignValues \ {<<>>} }
    \cup { validateVersion(heap, _workspaceVersions, heap[_currentVersion]) }
    \cup { validateVersion(heap, r.all, heap[_currentVersion]) : r \in runs }

\* C18: in every effective selection change the subscriber reads, during
\* the notification, the new record as the active version and as the
\* payload, the flag recomputed from it and the stored flag already
\* written; the step ends in that state.
C18_NotifiedAfterUpdate ==
    /\ \A new \in Validated :
          LET m == setCurrentVersion(heap, Selection, new)
              n == notified(heap, Selection, new)
          IN  m # Selection =>
                 /\ n.payload = new /\ n.cur = new
                 /\ n.flag = (heap[new].uri # EmptyUri)
                 /\ n.stored = <<n.flag>>
                 /\ m.fired = <<n.payload>>
                 /\ m.cur = n.cur /\ m.flag = n.flag /\ m.stored = n.stored
    /\ fired # <<>> =>
          /\ fired = <<_currentVersion>>
          /\ _useWorkspaceTsds = (heap[_currentVersion].uri # EmptyUri)
          /\ stored = <<_useWorkspaceTsds>>

\* a reconciliation has just made the default active: flag and stored flag
\* are false in the state the notification was fired in
C18_Witness ==
    /\ last.op = "reconciled"
    /\ fired = <<defaultVersion>>
    /\ stored = <<FALSE>>
    /\ load.phase = "done"

\* the locations derived from workspace roots rts and override preference
\* pref: the override itself when absolute, else the override under every
\* root, and the conventional path under every root
DerivedLocations(rts, pref) ==
    (IF pref = <<>> THEN {}
     ELSE IF isAbsolute(pref) THEN { withPath(pref) }
     ELSE { resolve(rts[i], pref) : i \in 1..Len(rts) })
    \cup { resolve(rts[i], ConventionalPath) : i \in 1..Len(rts) }

\* C19: when no reconciliation is in flight, the locations of the
\* collection are the ones derived from the roots and the override
\* preference as they were at the most recent trigger.
C19_CollectionMatchesLatestTrigger ==
    runs = {} =>
        UrisOf(heap, _workspaceVersions) = DerivedLocations(roots, tsdk)

----------------------------------------------------------------------------
(* One workspace root whose manifest changes between two versions *)

\* the read outcomes with a second version string in the manifest
ReadOutcomesV ==
    ReadOutcomes
    \cup { [kind |-> "content", parse |-> "object", vtype |-> "string", val |-> "4.3.0"] }

\* the values resolve() can leave in _version then
ResolveResultsV == { resolveVersionField(o) : o \in ReadOutcomesV }

InitV ==
    /\ Init
    /\ roots = <<RootA>>
    /\ tsdk = <<>>
    /\ stored = <<>>

NextV ==
    \/ \E version \in AssignValues : Assign(version)
    \/ \E rts \in RootLists : WorkspaceChanged(rts)
    \/ \E name \in PreferenceNames, pref \in TsdkValues : PreferenceChanged(name, pref)
    \/ \E e \in ChangeSets : FilesChanged(e)
    \/ \E id \in 1..Len(heap), v \in ResolveResultsV : FsResolveSettle(id, v)
    \/ \E id \in 1..Len(heap) : FsThen(id)
    \/ \E r \in runs, id \in 1..Len(heap), v \in ResolveResultsV : RunResolveSettle(r, id, v)
    \/ \E r \in runs : ReconcileComplete(r)
    \/ LoadDone

SpecV == InitV /\ [][NextV]_vars

\* C20: when a workspace record is active and no resolve() or validation is
\* pending, the active record has the version string of the record of the
\* collection at its location.
C20_ActiveVersionIsCurrent ==
    /\ _currentVersion # defaultVersion
    /\ runs = {}
    /\ fsOps = EmptyBag
    => \A id \in IdsOf(_workspaceVersions) :
          heap[id].uri = heap[_currentVersion].uri =>
              heap[id]._version = heap[_currentVersion]._version

====
